---- MODULE Spec2Model ----
(***************************************************************************)
(* Chain-event synchronisation of the ssss permitter watcher.              *)
(*   src/ssss/src/eth.rs       SsssPermitter: blocks, events,              *)
(*                             get_block_events, decode_permitter_event    *)
(*   src/ssss/src/sync/mod.rs  run, sync_chain, the checkpoint task        *)
(* One supervisor task per chain; every variable is a function of the      *)
(* chain id.  A retried call that fails leaves the state as it was, so the *)
(* failures of retry / retry_if are stuttering steps.                      *)
(***************************************************************************)
EXTENDS Integers, Sequences, FiniteSets, TLC

\* ---------------------------------------------------------------- bounds
MaxBlock == 2          \* highest chain height explored
MaxLogs == 2           \* most logs get_logs returns for one block
CreationBlock == 1     \* what creationBlock() of the contract answers
MaxRpcs == 3           \* longest endpoint list of arbitrary entries
MaxTicks == 4          \* most advances of the clock
MaxRequests == 2       \* most PermitRequest events handed to the closure

\* ------------------------------------------------------ program constants
Buffered == 100        \* .buffered(100) over the per-block futures
DecodeFanout == 100    \* .buffer_unordered(100) over the per-log decodes
ProvidersFanout == 10  \* .try_buffer_unordered(10) over the chain-id queries
UpstreamTtl == 3600    \* Duration::from_secs(60 * 60)
PermitAttempts == 3    \* retry_times(.., Some(3))
AddressZero == 0       \* Address::zero()

Chains == {1, 2}

\* Option<T>: None is the empty sequence, Some(x) the one-element sequence.
None == <<>>
Some(x) == <<x>>
Unwrap(o) == o[1]

VARIABLES
  down,             \* chains whose RPC endpoints fail forever (environment)
  head,             \* head[c]: current height of chain c (environment)
  persisted,        \* store: get_chain_state(c), None or Some(block)
  pc,               \* position of the supervisor task of chain c
  start_block,      \* sync_chain: start_block of the current run
  processed_block,  \* sync_chain: the AtomicU64 shared with the checkpoint task
  updater,          \* state_updater_task: "none", "alive" or "aborted"
  creation_cache,   \* SsssPermitter.creation_block (OnceCell): None or Some(b)
  init_block,       \* blocks(): head sampled when the cursor was created
  current_block,    \* blocks(): next block the cursor yields
  inflight,         \* buffered(): the per-block futures, in stream order
  registry,         \* providers(): one call, its stream and its fold
  handle,           \* SsssPermitter: the caches of one handle and its callers
  permit,           \* for_each: the PermitRequest arm of the closure
  stop_block,       \* events(): the stop_block argument
  ended,            \* events(): the stream has broken out of its loop
  handling,         \* for_each: the event whose closure is awaiting the store
  updates,          \* history: the update_verifier calls that succeeded, this run
  delivered,        \* history: events handed to the for_each closure, this run
  yielded,          \* history: block numbers the cursor yielded, this run
  seen_head,        \* history: highest height a get_block_number call reported
  creation_called,  \* history: creation_block() was called in this run
  tx_fetched        \* history: <<block, position>> of logs whose tx was fetched

sync_vars == <<down, head, persisted, pc, start_block, processed_block, updater,
               creation_cache, init_block, current_block, inflight, handling,
               updates, stop_block, ended, delivered, yielded, seen_head,
               creation_called, tx_fetched>>

vars == <<sync_vars, registry, handle, permit>>

\* ------------------------------------------------------------------ logs
Identities == {"X", "Y"}

\* Calldata of the source transaction: identity word, length word, bytes.
Inputs == { <<"X", 2, 1, 2>>, <<"Y", 0>>, <<"X", 3, 1>>, <<>> }

AbiDecodeOk(input) ==
  /\ Len(input) >= 2
  /\ input[1] \in Identities
  /\ Len(input) = 2 + input[2]

AbiDecode(input) ==
  [identity |-> input[1], config |-> SubSeq(input, 3, Len(input))]

\* A log of block n at position p (1-based) as the node reports it.  Each of
\* the three Option fields may be absent; removed is an Option<bool>.
MkLog(n, p, hasBlock, hasTx, hasIndex, removed, sig, input) ==
  [ block_number     |-> IF hasBlock THEN Some(n) ELSE None,
    transaction_hash |-> IF hasTx THEN Some(<<n, p>>) ELSE None,
    log_index        |-> IF hasIndex THEN Some(p - 1) ELSE None,
    removed          |-> removed,
    sig              |-> sig,
    input            |-> input ]

Removed == {None, Some(FALSE), Some(TRUE)}
Sigs == {"Configuration", "Unimplemented", "Unknown"}

\* Shapes of logs: <<hasBlock, hasTx, hasIndex, removed, sig, input>>.
AllShapes == BOOLEAN \X BOOLEAN \X BOOLEAN \X Removed \X Sigs \X Inputs

GoodShape(input) == <<TRUE, TRUE, TRUE, None, "Configuration", input>>

\* The shapes the pipeline specification draws from: a Configuration log that
\* decodes to an event and one whose calldata makes the decode panic.
PipelineShapes ==
  { GoodShape(<<"X", 2, 1, 2>>),
    GoodShape(<<"X", 3, 1>>) }

ShapeSeqs(shapes, n) == UNION { [1..k -> shapes] : k \in 0..n }

\* What get_logs may answer for one block in the pipeline specification.
PipelineSeqs == ShapeSeqs(PipelineShapes, MaxLogs)

\* What it may answer in the decode specification: any log whatever, alone or
\* next to a well-formed Configuration log.
DecodeSeqs ==
  UNION { { <<s>>, <<s, GoodShape(<<"X", 2, 1, 2>>)>>,
            <<GoodShape(<<"X", 2, 1, 2>>), s>> } : s \in AllShapes }

LogsOf(n, ss) ==
  [p \in 1..Len(ss) |->
     MkLog(n, p, ss[p][1], ss[p][2], ss[p][3], ss[p][4], ss[p][5], ss[p][6])]

\* -------------------------------------------------- decode_permitter_event
\* Mutant of HeaderOk: the removed flag is not looked at.
HeaderOkAnyRemoved(log) ==
  /\ log.block_number # None
  /\ log.transaction_hash # None
  /\ log.log_index # None

HeaderOk(log) ==
  /\ log.block_number # None
  /\ log.transaction_hash # None
  /\ log.log_index # None
  /\ log.removed = None

DecodeLogOk(log) == log.sig \in {"Configuration", "Unimplemented"}

\* The decode reaches get_transaction (its first await).
ReachesTxFetch(log) == HeaderOk(log) /\ DecodeLogOk(log)

\* The decode panics in AbiDecode::decode(input).unwrap().
DecodePanics(log) ==
  /\ ReachesTxFetch(log)
  /\ log.sig = "Configuration"
  /\ ~AbiDecodeOk(log.input)

\* The decode returns Some(event).
DecodeYields(log) ==
  /\ ReachesTxFetch(log)
  /\ log.sig = "Configuration"
  /\ AbiDecodeOk(log.input)

\* of_block and of_pos are history fields: the block whose future produced the
\* event and the position of its log there.
DecodedEvent(log, n, p) ==
  [ kind     |-> [tag |-> "Configuration",
                  identity |-> AbiDecode(log.input).identity,
                  config |-> AbiDecode(log.input).config],
    tx       |-> log.transaction_hash,
    index    |-> [block |-> Unwrap(log.block_number),
                  log_index |-> Unwrap(log.log_index)],
    of_block |-> n,
    of_pos   |-> p ]

DefaultIndex == [block |-> 0, log_index |-> 0]

MarkerEvent(n) ==
  [ kind     |-> [tag |-> "ProcessedBlock"],
    tx       |-> None,
    index    |-> DefaultIndex,
    of_block |-> n,
    of_pos   |-> 0 ]

\* ------------------------------------------------------- in-flight futures
BlockSlot(n) ==
  [kind |-> "block", blk |-> n, st |-> "fetch", logs |-> <<>>,
   todo |-> <<>>, active |-> {}, out |-> <<>>]

MarkerSlot(n) ==
  [kind |-> "marker", blk |-> n, st |-> "done", logs |-> <<>>,
   todo |-> <<>>, active |-> {}, out |-> <<MarkerEvent(n)>>]

\* buffer_unordered: start decodes in log order while fewer than DecodeFanout
\* are in progress; a decode that returns None at its first poll is filtered.
RECURSIVE Fill(_)
Fill(s) ==
  IF s.todo = <<>> \/ Cardinality(s.active) >= DecodeFanout
  THEN [s EXCEPT !.st = IF s.todo = <<>> /\ s.active = {} THEN "done" ELSE "decode"]
  ELSE LET p == Head(s.todo) IN
       IF ReachesTxFetch(s.logs[p])
       THEN Fill([s EXCEPT !.todo = Tail(@), !.active = @ \cup {p}])
       ELSE Fill([s EXCEPT !.todo = Tail(@)])

Max(a, b) == IF a >= b THEN a ELSE b

RECURSIVE Iota(_, _)
Iota(a, b) == IF a > b THEN <<>> ELSE <<a>> \o Iota(a + 1, b)

\* ------------------------------------------------- states before any call
\* providers(rpcs) before its first poll.
RegistryOf(rpcs) ==
  [rpcs |-> rpcs, next |-> 1, inprog |-> {}, requested |-> {},
   groups |-> [id \in {} |-> <<>>], result |-> "idle", returned |-> None]

Callers == {1, 2}

\* SsssPermitter::new: an empty creation-block cell, the zero address with the
\* construction time as its expiry, the mutex free.  reg_addr is what the
\* contract's registry() returns at present.
NewHandle ==
  [cell |-> None, up_addr |-> AddressZero, up_expiry |-> 0, lock |-> None,
   now |-> 0, ticks |-> 0, reg_addr |-> 1,
   callers |-> [k \in Callers |-> [pc |-> "idle", ret |-> None]]]

\* The closure before it is handed the PermitRequest events of queue; aws is
\* whether the crate is built with the feature "aws".
PermitOf(queue, aws) ==
  [queue |-> queue, aws |-> aws, pc |-> "idle", cur |-> None, fails |-> 0,
   policy |-> None, outcomes |-> <<>>]

\* ------------------------------------------------------------------ Init
InitSync ==
  /\ down = {2}
  /\ head \in [Chains -> CreationBlock..MaxBlock]
  /\ persisted \in [Chains -> {None} \cup {Some(b) : b \in CreationBlock..MaxBlock}]
  /\ \A c \in Chains : persisted[c] # None => Unwrap(persisted[c]) <= head[c]
  /\ \A c \in down : head[c] = CreationBlock /\ persisted[c] = None
  /\ pc = [c \in Chains |-> "init"]
  /\ start_block = [c \in Chains |-> 0]
  /\ processed_block = [c \in Chains |-> 0]
  /\ updater = [c \in Chains |-> "none"]
  /\ creation_cache = [c \in Chains |-> None]
  /\ init_block = [c \in Chains |-> 0]
  /\ current_block = [c \in Chains |-> 0]
  /\ inflight = [c \in Chains |-> <<>>]
  /\ handling = [c \in Chains |-> None]
  /\ stop_block = [c \in Chains |-> None]
  /\ ended = [c \in Chains |-> FALSE]
  /\ updates = [c \in Chains |-> <<>>]
  /\ delivered = [c \in Chains |-> <<>>]
  /\ yielded = [c \in Chains |-> <<>>]
  /\ seen_head = [c \in Chains |-> 0]
  /\ creation_called = [c \in Chains |-> FALSE]
  /\ tx_fetched = [c \in Chains |-> {}]

Init ==
  /\ InitSync
  /\ registry = RegistryOf(<<>>)
  /\ handle = NewHandle
  /\ permit = PermitOf(<<>>, FALSE)

\* ------------------------------------------------------------ environment
HeadAdvance(c) ==
  /\ c \notin down
  /\ head[c] < MaxBlock
  /\ head' = [head EXCEPT ![c] = @ + 1]
  /\ UNCHANGED <<registry, handle, permit, stop_block, ended, handling, updates, down, persisted, pc, start_block, processed_block, updater,
                 creation_cache, init_block, current_block, inflight,
                 delivered, yielded, seen_head, creation_called, tx_fetched>>

\* ------------------------------------------------------------- sync_chain
\* Lines 59-85: the counter, the checkpoint task and the event stream.
StartRun(c, b) ==
  /\ start_block' = [start_block EXCEPT ![c] = b]
  /\ processed_block' = [processed_block EXCEPT ![c] = b]
  /\ updater' = [updater EXCEPT ![c] = "alive"]
  /\ pc' = [pc EXCEPT ![c] = "head"]
  /\ inflight' = [inflight EXCEPT ![c] = <<>>]
  /\ handling' = [handling EXCEPT ![c] = None]
  /\ updates' = [updates EXCEPT ![c] = <<>>]
  /\ stop_block' = [stop_block EXCEPT ![c] = None]
  /\ ended' = [ended EXCEPT ![c] = FALSE]
  /\ delivered' = [delivered EXCEPT ![c] = <<>>]
  /\ yielded' = [yielded EXCEPT ![c] = <<>>]
  /\ tx_fetched' = [tx_fetched EXCEPT ![c] = {}]

GetChainStateErr(c) ==
  /\ pc[c] = "init"
  /\ pc' = [pc EXCEPT ![c] = "backoff"]
  /\ UNCHANGED <<registry, handle, permit, stop_block, ended, handling, updates, down, head, persisted, start_block, processed_block, updater,
                 creation_cache, init_block, current_block, inflight,
                 delivered, yielded, seen_head, creation_called, tx_fetched>>

\* Mutant of GetChainStateSome: the checkpoint is read but the run starts at
\* the creation block.
GetChainStateSomeIgnored(c) ==
  /\ pc[c] = "init"
  /\ persisted[c] # None
  /\ StartRun(c, CreationBlock)
  /\ creation_called' = [creation_called EXCEPT ![c] = FALSE]
  /\ UNCHANGED <<registry, handle, permit, down, head, persisted, creation_cache, init_block,
                 current_block, seen_head>>

GetChainStateSome(c) ==
  /\ pc[c] = "init"
  /\ persisted[c] # None
  /\ StartRun(c, Unwrap(persisted[c]))
  /\ creation_called' = [creation_called EXCEPT ![c] = FALSE]
  /\ UNCHANGED <<registry, handle, permit, down, head, persisted, creation_cache, init_block,
                 current_block, seen_head>>

GetChainStateNone(c) ==
  /\ pc[c] = "init"
  /\ persisted[c] = None
  /\ pc' = [pc EXCEPT ![c] = "creation"]
  /\ creation_called' = [creation_called EXCEPT ![c] = TRUE]
  /\ UNCHANGED <<registry, handle, permit, stop_block, ended, handling, updates, down, head, persisted, start_block, processed_block, updater,
                 creation_cache, init_block, current_block, inflight,
                 delivered, yielded, seen_head, tx_fetched>>

\* creation_block() answers: from the cell when it is set, and else from the
\* contract, whose answer is put into the cell.
CreationOk(c) ==
  /\ pc[c] = "creation"
  /\ creation_cache[c] # None \/ c \notin down
  /\ LET b == IF creation_cache[c] # None THEN Unwrap(creation_cache[c])
              ELSE CreationBlock
     IN /\ creation_cache' = [creation_cache EXCEPT ![c] = Some(b)]
        /\ StartRun(c, b)
  /\ UNCHANGED <<registry, handle, permit, down, head, persisted, init_block, current_block, seen_head,
                 creation_called>>

\* The contract call fails: sync_chain returns the error.
CreationFetchErr(c) ==
  /\ pc[c] = "creation"
  /\ creation_cache[c] = None
  /\ pc' = [pc EXCEPT ![c] = "backoff"]
  /\ UNCHANGED <<registry, handle, permit, stop_block, ended, handling, updates, down, head, persisted, start_block, processed_block, updater,
                 creation_cache, init_block, current_block, inflight,
                 delivered, yielded, seen_head, creation_called, tx_fetched>>

\* run: sleep(1000 ms), then the loop calls sync_chain again.
Restart(c) ==
  /\ pc[c] = "backoff"
  /\ pc' = [pc EXCEPT ![c] = "init"]
  /\ UNCHANGED <<registry, handle, permit, stop_block, ended, handling, updates, down, head, persisted, start_block, processed_block, updater,
                 creation_cache, init_block, current_block, inflight,
                 delivered, yielded, seen_head, creation_called, tx_fetched>>

\* Mutant of Tick: the write does not select the row of the chain.
TickEveryRow(c) ==
  /\ updater[c] = "alive"
  /\ persisted' = [d \in Chains |-> Some(processed_block[c])]
  /\ UNCHANGED <<registry, handle, permit, stop_block, ended, handling, updates, down, head, pc, start_block, processed_block, updater,
                 creation_cache, init_block, current_block, inflight,
                 delivered, yielded, seen_head, creation_called, tx_fetched>>

\* The checkpoint task: update_chain_state with the counter's value.  A store
\* error is only logged and leaves the state as it was.
Tick(c) ==
  /\ updater[c] = "alive"
  /\ persisted' = [persisted EXCEPT ![c] = Some(processed_block[c])]
  /\ UNCHANGED <<registry, handle, permit, stop_block, ended, handling, updates, down, head, pc, start_block, processed_block, updater,
                 creation_cache, init_block, current_block, inflight,
                 delivered, yielded, seen_head, creation_called, tx_fetched>>

\* ------------------------------------------------------------------ blocks
\* init_block: the first successful get_block_number of the retry.
SampleHead(c) ==
  /\ pc[c] = "head"
  /\ c \notin down
  /\ init_block' = [init_block EXCEPT ![c] = head[c]]
  /\ seen_head' = [seen_head EXCEPT ![c] = head[c]]
  /\ current_block' = [current_block EXCEPT ![c] = start_block[c]]
  /\ pc' = [pc EXCEPT ![c] = "running"]
  /\ UNCHANGED <<registry, handle, permit, stop_block, ended, handling, updates, down, head, persisted, start_block, processed_block, updater,
                 creation_cache, inflight, delivered, yielded,
                 creation_called, tx_fetched>>

\* Mutant of YieldBlock: the marker is put in front of the block's future.
YieldBlockMarkerFirst(c) ==
  /\ pc[c] = "running"
  /\ handling[c] = None
  /\ ~ended[c]
  /\ Len(inflight[c]) + 2 <= Buffered
  /\ \/ current_block[c] <= init_block[c]
     \/ c \notin down /\ head[c] >= current_block[c]
  /\ seen_head' = [seen_head EXCEPT ![c] =
                     IF current_block[c] <= init_block[c] THEN @
                     ELSE Max(@, head[c])]
  /\ inflight' = [inflight EXCEPT ![c] =
                    @ \o <<MarkerSlot(current_block[c]), BlockSlot(current_block[c])>>]
  /\ yielded' = [yielded EXCEPT ![c] = Append(@, current_block[c])]
  /\ current_block' = [current_block EXCEPT ![c] = @ + 1]
  /\ ended' = [ended EXCEPT ![c] = (Some(current_block[c]) = stop_block[c])]
  /\ UNCHANGED <<registry, handle, permit, stop_block, handling, updates, down, head, persisted, pc, start_block, processed_block,
                 updater, creation_cache, init_block, delivered,
                 creation_called, tx_fetched>>

\* Mutant of YieldBlock: blocks above init_block are yielded without waiting.
YieldBlockNoWait(c) ==
  /\ pc[c] = "running"
  /\ handling[c] = None
  /\ ~ended[c]
  /\ Len(inflight[c]) + 2 <= Buffered
  /\ current_block[c] <= MaxBlock + 1
  /\ seen_head' = [seen_head EXCEPT ![c] =
                     IF current_block[c] <= init_block[c] THEN @
                     ELSE Max(@, head[c])]
  /\ inflight' = [inflight EXCEPT ![c] =
                    @ \o <<BlockSlot(current_block[c]), MarkerSlot(current_block[c])>>]
  /\ yielded' = [yielded EXCEPT ![c] = Append(@, current_block[c])]
  /\ current_block' = [current_block EXCEPT ![c] = @ + 1]
  /\ ended' = [ended EXCEPT ![c] = (Some(current_block[c]) = stop_block[c])]
  /\ UNCHANGED <<registry, handle, permit, stop_block, handling, updates, down, head, persisted, pc, start_block, processed_block,
                 updater, creation_cache, init_block, delivered,
                 creation_called, tx_fetched>>

\* The cursor yields current_block, at once when it is not above init_block
\* and else when a poll of wait_for_block reports a head that has reached it;
\* events() turns it into the block's future followed by the ready marker.
YieldBlock(c) ==
  /\ pc[c] = "running"
  /\ handling[c] = None
  /\ ~ended[c]
  /\ Len(inflight[c]) + 2 <= Buffered
  /\ \/ current_block[c] <= init_block[c]
     \/ c \notin down /\ head[c] >= current_block[c]
  /\ seen_head' = [seen_head EXCEPT ![c] =
                     IF current_block[c] <= init_block[c] THEN @
                     ELSE Max(@, head[c])]
  /\ inflight' = [inflight EXCEPT ![c] =
                    @ \o <<BlockSlot(current_block[c]), MarkerSlot(current_block[c])>>]
  /\ yielded' = [yielded EXCEPT ![c] = Append(@, current_block[c])]
  /\ current_block' = [current_block EXCEPT ![c] = @ + 1]
  /\ ended' = [ended EXCEPT ![c] = (Some(current_block[c]) = stop_block[c])]
  /\ UNCHANGED <<registry, handle, permit, stop_block, handling, updates, down, head, persisted, pc, start_block, processed_block,
                 updater, creation_cache, init_block, delivered,
                 creation_called, tx_fetched>>

\* -------------------------------------------------------- get_block_events
\* get_logs answers for slot i; the decodes of its logs are started.
GetLogs(c, i, seqs) ==
  /\ pc[c] = "running"
  /\ handling[c] = None
  /\ i \in 1..Len(inflight[c])
  /\ inflight[c][i].st = "fetch"
  /\ c \notin down
  /\ \E ss \in seqs :
       LET s0 == inflight[c][i]
           s1 == Fill([s0 EXCEPT !.logs = LogsOf(s0.blk, ss),
                                 !.todo = Iota(1, Len(ss))])
       IN /\ inflight' = [inflight EXCEPT ![c][i] = s1]
          /\ tx_fetched' = [tx_fetched EXCEPT ![c] =
                              @ \cup {<<s0.blk, p>> : p \in s1.active}]
  /\ UNCHANGED <<registry, handle, permit, stop_block, ended, handling, updates, down, head, persisted, pc, start_block, processed_block,
                 updater, creation_cache, init_block, current_block,
                 delivered, yielded, seen_head, creation_called>>

\* get_transaction answers for the log at position p of slot i and the decode
\* runs to its end without panicking.
TxFetched(c, i, p) ==
  /\ pc[c] = "running"
  /\ handling[c] = None
  /\ i \in 1..Len(inflight[c])
  /\ p \in inflight[c][i].active
  /\ ~DecodePanics(inflight[c][i].logs[p])
  /\ LET s0 == inflight[c][i]
         l  == s0.logs[p]
         s1 == [s0 EXCEPT !.active = @ \ {p},
                          !.out = IF DecodeYields(l)
                                  THEN Append(@, DecodedEvent(l, s0.blk, p))
                                  ELSE @]
         s2 == Fill(s1)
     IN /\ inflight' = [inflight EXCEPT ![c][i] = s2]
        /\ tx_fetched' = [tx_fetched EXCEPT ![c] =
                            @ \cup {<<s0.blk, q>> : q \in s2.active}]
  /\ UNCHANGED <<registry, handle, permit, stop_block, ended, handling, updates, down, head, persisted, pc, start_block, processed_block,
                 updater, creation_cache, init_block, current_block,
                 delivered, yielded, seen_head, creation_called>>

\* AbiDecode::decode(input).unwrap() panics: the supervisor task of the chain
\* ends, its stream is dropped, the detached checkpoint task lives on.
DecodePanic(c, i, p) ==
  /\ pc[c] = "running"
  /\ handling[c] = None
  /\ i \in 1..Len(inflight[c])
  /\ p \in inflight[c][i].active
  /\ DecodePanics(inflight[c][i].logs[p])
  /\ pc' = [pc EXCEPT ![c] = "panicked"]
  /\ inflight' = [inflight EXCEPT ![c] = <<>>]
  /\ UNCHANGED <<registry, handle, permit, stop_block, ended, handling, updates, down, head, persisted, start_block, processed_block, updater,
                 creation_cache, init_block, current_block, delivered,
                 yielded, seen_head, creation_called, tx_fetched>>

\* ------------------------------------------------- for_each over the stream
\* Variant: the counter is advanced past the block of every event, real
\* events included, before the store update has run.
HandleCountsEveryEvent(c, e) ==
  IF e.kind.tag = "ProcessedBlock"
  THEN /\ processed_block' = [processed_block EXCEPT ![c] = e.index.block]
       /\ UNCHANGED handling
  ELSE /\ handling' = [handling EXCEPT ![c] = Some([ev |-> e, retried |-> FALSE])]
       /\ processed_block' = [processed_block EXCEPT ![c] = e.of_block + 1]

\* The closure of for_each on one event (lines 88-144), up to its first await:
\* a marker is stored into the counter, a Configuration event starts the
\* retried update_verifier.  (The decode produces no PermitRequest event.)
Handle(c, e) ==
  IF e.kind.tag = "ProcessedBlock"
  THEN /\ processed_block' = [processed_block EXCEPT ![c] = e.index.block]
       /\ UNCHANGED handling
  ELSE /\ handling' = [handling EXCEPT ![c] = Some([ev |-> e, retried |-> FALSE])]
       /\ UNCHANGED processed_block

\* update_verifier fails: retry calls it again.
UpdateVerifierErr(c) ==
  /\ pc[c] = "running"
  /\ handling[c] # None
  /\ ~Unwrap(handling[c]).retried
  /\ handling' = [handling EXCEPT ![c] = Some([Unwrap(@) EXCEPT !.retried = TRUE])]
  /\ UNCHANGED <<registry, handle, permit, stop_block, ended, updates, down, head, persisted, pc, start_block,
                 processed_block, updater, creation_cache, init_block,
                 current_block, inflight, delivered, yielded, seen_head,
                 creation_called, tx_fetched>>

\* update_verifier succeeds: the closure returns and for_each polls the stream
\* for the next event.
UpdateVerifierOk(c) ==
  /\ pc[c] = "running"
  /\ handling[c] # None
  /\ updates' = [updates EXCEPT ![c] =
                   Append(@, [identity |-> Unwrap(handling[c]).ev.kind.identity,
                              config   |-> Unwrap(handling[c]).ev.kind.config,
                              index    |-> Unwrap(handling[c]).ev.index])]
  /\ handling' = [handling EXCEPT ![c] = None]
  /\ UNCHANGED <<registry, handle, permit, stop_block, ended, down, head, persisted, pc, start_block, processed_block,
                 updater, creation_cache, init_block, current_block, inflight,
                 delivered, yielded, seen_head, creation_called, tx_fetched>>

\* Variant: the closures run concurrently (for_each_concurrent), the next
\* event is taken while an update is still being retried.
DeliverConcurrently(c) ==
  /\ pc[c] = "running"
  /\ Len(inflight[c]) > 0
  /\ inflight[c][1].st = "done"
  /\ inflight[c][1].out # <<>>
  /\ LET e == Head(inflight[c][1].out) IN
       /\ Handle(c, e)
       /\ delivered' = [delivered EXCEPT ![c] = Append(@, e)]
       /\ inflight' = [inflight EXCEPT ![c] =
                         IF Tail(@[1].out) = <<>> THEN Tail(@)
                         ELSE [@ EXCEPT ![1].out = Tail(@)]]
  /\ UNCHANGED <<registry, handle, permit, stop_block, ended, updates, down, head, persisted, pc, start_block, updater,
                 creation_cache, init_block, current_block, yielded,
                 seen_head, creation_called, tx_fetched>>

\* buffered() hands out the oldest future once it is complete; flatten feeds
\* its events to the closure one by one.
Deliver(c) ==
  /\ pc[c] = "running"
  /\ handling[c] = None
  /\ Len(inflight[c]) > 0
  /\ inflight[c][1].st = "done"
  /\ inflight[c][1].out # <<>>
  /\ LET e == Head(inflight[c][1].out) IN
       /\ Handle(c, e)
       /\ delivered' = [delivered EXCEPT ![c] = Append(@, e)]
       /\ inflight' = [inflight EXCEPT ![c] =
                         IF Tail(@[1].out) = <<>> THEN Tail(@)
                         ELSE [@ EXCEPT ![1].out = Tail(@)]]
  /\ UNCHANGED <<registry, handle, permit, stop_block, ended, updates, down, head, persisted, pc, start_block, updater,
                 creation_cache, init_block, current_block, yielded,
                 seen_head, creation_called, tx_fetched>>

\* A block without events: its future resolves to an empty collection.
SkipEmpty(c) ==
  /\ pc[c] = "running"
  /\ handling[c] = None
  /\ Len(inflight[c]) > 0
  /\ inflight[c][1].st = "done"
  /\ inflight[c][1].out = <<>>
  /\ inflight' = [inflight EXCEPT ![c] = Tail(@)]
  /\ UNCHANGED <<registry, handle, permit, stop_block, ended, handling, updates, down, head, persisted, pc, start_block, processed_block,
                 updater, creation_cache, init_block, current_block,
                 delivered, yielded, seen_head, creation_called, tx_fetched>>

\* ------------------------------------------------------------------- Next
Step(c, seqs) ==
  \/ HeadAdvance(c)
  \/ GetChainStateErr(c)
  \/ GetChainStateSome(c)
  \/ GetChainStateNone(c)
  \/ CreationOk(c)
  \/ CreationFetchErr(c)
  \/ Restart(c)
  \/ Tick(c)
  \/ SampleHead(c)
  \/ YieldBlock(c)
  \/ \E i \in 1..Len(inflight[c]) : GetLogs(c, i, seqs)
  \/ \E i \in 1..Len(inflight[c]) : \E p \in inflight[c][i].active : TxFetched(c, i, p)
  \/ \E i \in 1..Len(inflight[c]) : \E p \in inflight[c][i].active : DecodePanic(c, i, p)
  \/ Deliver(c)
  \/ UpdateVerifierErr(c)
  \/ UpdateVerifierOk(c)
  \/ SkipEmpty(c)

Next == \E c \in Chains : Step(c, PipelineSeqs)

Spec == Init /\ [][Next]_vars

\* ------------------------------------------------ the decode specification
\* One run of the healthy chain that resumes from a checkpoint at the head of
\* the chain and decodes that block, whose logs are drawn from every shape.
InitDecode ==
  /\ Init
  /\ \A c \in Chains \ down : head[c] = MaxBlock /\ persisted[c] = Some(MaxBlock)

StepDecode(c) ==
  \/ GetChainStateSome(c)
  \/ SampleHead(c)
  \/ YieldBlock(c)
  \/ \E i \in 1..Len(inflight[c]) : GetLogs(c, i, DecodeSeqs)
  \/ \E i \in 1..Len(inflight[c]) : \E p \in inflight[c][i].active : TxFetched(c, i, p)
  \/ \E i \in 1..Len(inflight[c]) : \E p \in inflight[c][i].active : DecodePanic(c, i, p)
  \/ Deliver(c)
  \/ UpdateVerifierErr(c)
  \/ UpdateVerifierOk(c)
  \/ SkipEmpty(c)

NextDecode == \E c \in Chains : StepDecode(c)

SpecDecode == InitDecode /\ [][NextDecode]_vars

\* ---------------------------------------------- the stop-block specification
\* events(start, Some(stop)) consumed as sync_chain consumes its stream, for
\* every start block and stop block; the endpoints of the chain answer.
InitStop ==
  /\ down = {2}
  /\ head \in [Chains -> CreationBlock..MaxBlock]
  /\ \A c \in down : head[c] = CreationBlock
  /\ persisted = [c \in Chains |-> None]
  /\ pc = [c \in Chains |-> IF c \in down THEN "init" ELSE "head"]
  /\ start_block \in [Chains -> 0..MaxBlock]
  /\ \A c \in down : start_block[c] = 0
  /\ processed_block = start_block
  /\ updater = [c \in Chains |-> "none"]
  /\ creation_cache = [c \in Chains |-> None]
  /\ init_block = [c \in Chains |-> 0]
  /\ current_block = [c \in Chains |-> 0]
  /\ inflight = [c \in Chains |-> <<>>]
  /\ handling = [c \in Chains |-> None]
  /\ stop_block \in [Chains -> {None} \cup {Some(b) : b \in 0..MaxBlock}]
  /\ \A c \in down : stop_block[c] = None
  /\ \A c \in Chains \ down : stop_block[c] # None
  /\ ended = [c \in Chains |-> FALSE]
  /\ updates = [c \in Chains |-> <<>>]
  /\ delivered = [c \in Chains |-> <<>>]
  /\ yielded = [c \in Chains |-> <<>>]
  /\ seen_head = [c \in Chains |-> 0]
  /\ creation_called = [c \in Chains |-> FALSE]
  /\ tx_fetched = [c \in Chains |-> {}]
  /\ registry = RegistryOf(<<>>)
  /\ handle = NewHandle
  /\ permit = PermitOf(<<>>, FALSE)

\* A block has at most one log, well-formed or foreign.
IsoSeqs ==
  ShapeSeqs({ GoodShape(<<"X", 2, 1, 2>>),
              <<TRUE, TRUE, TRUE, None, "Unimplemented", <<>>>> }, 1)

\* The stream has ended and the buffer is drained: for_each returns.
StreamEnd(c) ==
  /\ pc[c] = "running"
  /\ handling[c] = None
  /\ ended[c]
  /\ inflight[c] = <<>>
  /\ pc' = [pc EXCEPT ![c] = "returned"]
  /\ UNCHANGED <<registry, handle, permit, stop_block, ended, handling, updates, down, head, persisted,
                 start_block, processed_block, updater, creation_cache,
                 init_block, current_block, inflight, delivered, yielded,
                 seen_head, creation_called, tx_fetched>>

StepStop(c) ==
  \/ HeadAdvance(c)
  \/ SampleHead(c)
  \/ YieldBlock(c)
  \/ \E i \in 1..Len(inflight[c]) : GetLogs(c, i, IsoSeqs)
  \/ \E i \in 1..Len(inflight[c]) : \E p \in inflight[c][i].active : TxFetched(c, i, p)
  \/ Deliver(c)
  \/ UpdateVerifierOk(c)
  \/ SkipEmpty(c)
  \/ StreamEnd(c)

NextStop == \E c \in Chains : StepStop(c)

SpecStop == InitStop /\ [][NextStop]_vars

\* ---------------------------------------------- the isolation specification
\* Two supervisors, one of a chain whose endpoints fail forever.  A block has
\* at most one log, well-formed or foreign, so that no decode panics; the calls
\* of the healthy chain succeed when repeated and every ready task is scheduled.
StepIso(c) ==
  \/ HeadAdvance(c)
  \/ GetChainStateErr(c)
  \/ GetChainStateSome(c)
  \/ GetChainStateNone(c)
  \/ CreationOk(c)
  \/ CreationFetchErr(c)
  \/ Restart(c)
  \/ Tick(c)
  \/ SampleHead(c)
  \/ YieldBlock(c)
  \/ \E i \in 1..Len(inflight[c]) : GetLogs(c, i, IsoSeqs)
  \/ \E i \in 1..Len(inflight[c]) : \E p \in inflight[c][i].active : TxFetched(c, i, p)
  \/ Deliver(c)
  \/ UpdateVerifierErr(c)
  \/ UpdateVerifierOk(c)
  \/ SkipEmpty(c)

NextIso == \E c \in Chains : StepIso(c)

\* What a supervisor does once its calls are answered.
Progress(c) ==
  \/ HeadAdvance(c)
  \/ Restart(c)
  \/ Tick(c)
  \/ SampleHead(c)
  \/ YieldBlock(c)
  \/ \E i \in 1..Len(inflight[c]) : GetLogs(c, i, IsoSeqs)
  \/ \E i \in 1..Len(inflight[c]) : \E p \in inflight[c][i].active : TxFetched(c, i, p)
  \/ Deliver(c)
  \/ UpdateVerifierOk(c)
  \/ SkipEmpty(c)

SpecIso ==
  /\ Init
  /\ [][NextIso]_vars
  /\ \A c \in Chains :
       /\ WF_vars(Progress(c))
       /\ SF_vars(GetChainStateSome(c) \/ GetChainStateNone(c))
       /\ SF_vars(CreationOk(c))

\* ---------------------------------------------------------------- providers
\* An entry of the endpoint list: whether Url::parse accepts it, its scheme,
\* and the chain id its node answers to eth_chainId.
Rpc(parses, scheme, chain) == [parses |-> parses, scheme |-> scheme, chain |-> chain]

RpcShapes ==
  { Rpc(FALSE, "none", 1), Rpc(TRUE, "ftp", 1), Rpc(TRUE, "http", 1),
    Rpc(TRUE, "http", 2) }

\* Lists of arbitrary entries up to MaxRpcs, and lists longer than the fan-out
\* of the chain-id queries whose only rejected entry is at position k.
RpcLists ==
  UNION { [1..n -> RpcShapes] : n \in 0..MaxRpcs }
  \cup { [i \in 1..(ProvidersFanout + 2) |->
            IF i = k THEN Rpc(TRUE, "ftp", 1) ELSE Rpc(TRUE, "http", 1)] :
         k \in 1..(ProvidersFanout + 2) }

\* The closure mapped over rpcs: parse, then the scheme test.
UrlOk(rpc) == rpc.parses /\ rpc.scheme = "http"

\* Variant: insert replaces the endpoints already grouped under the chain id.
FoldProviderInsert(groups, chain_id, i) ==
  [id \in DOMAIN groups \cup {chain_id} |->
     IF id = chain_id THEN <<i>> ELSE groups[id]]

\* The closure of try_fold: providers.entry(chain_id).or_default().push(provider).
FoldProvider(groups, chain_id, i) ==
  [id \in DOMAIN groups \cup {chain_id} |->
     IF id = chain_id
     THEN (IF id \in DOMAIN groups THEN groups[id] ELSE <<>>) \o <<i>>
     ELSE groups[id]]

\* The final map: one majority quorum per chain id over the grouped endpoints.
Quorums(groups) ==
  [id \in DOMAIN groups |-> [quorum |-> "Majority", members |-> groups[id]]]

\* try_buffer_unordered, first half of a poll: pull entries from the list
\* while fewer than ProvidersFanout queries are in progress; a rejected entry
\* is propagated at once.
RECURSIVE PullRpcs(_)
PullRpcs(r) ==
  IF Cardinality(r.inprog) >= ProvidersFanout \/ r.next > Len(r.rpcs) THEN r
  ELSE IF ~UrlOk(r.rpcs[r.next])
       THEN [r EXCEPT !.result = "err_url", !.next = @ + 1]
       ELSE PullRpcs([r EXCEPT !.inprog = @ \cup {r.next}, !.next = @ + 1])

\* One poll of the folded stream: after the pull either the rejection is
\* returned and the queries are dropped, or the queries in progress are polled
\* (a query polled for the first time sends its eth_chainId request), or the
\* list and the queue are exhausted and the map is built.
PollProviders(r) ==
  LET q == PullRpcs(r) IN
    IF q.result = "err_url" THEN [q EXCEPT !.inprog = {}]
    ELSE IF q.inprog = {}
         THEN [q EXCEPT !.result = "ok", !.returned = Some(Quorums(q.groups))]
         ELSE [q EXCEPT !.requested = @ \cup q.inprog]

\* providers(rpcs) is called and awaited.
ProvidersCall ==
  /\ registry.result = "idle"
  /\ registry' = PollProviders([registry EXCEPT !.result = "running"])
  /\ UNCHANGED <<sync_vars, handle, permit>>

\* Endpoint i answers its chain id: the pair is folded into the map and the
\* stream is polled again.
ChainIdAnswer(i) ==
  /\ registry.result = "running"
  /\ i \in registry.inprog
  /\ registry' = PollProviders(
       [registry EXCEPT !.inprog = @ \ {i},
                        !.groups = FoldProvider(@, registry.rpcs[i].chain, i)])
  /\ UNCHANGED <<sync_vars, handle, permit>>

\* The query of endpoint i fails: the error ends the fold.
ChainIdErr(i) ==
  /\ registry.result = "running"
  /\ i \in registry.inprog
  /\ registry' = [registry EXCEPT !.result = "err_rpc", !.inprog = {}]
  /\ UNCHANGED <<sync_vars, handle, permit>>

InitProviders ==
  /\ InitSync
  /\ head = [c \in Chains |-> CreationBlock]
  /\ persisted = [c \in Chains |-> None]
  /\ registry \in { RegistryOf(rpcs) : rpcs \in RpcLists }
  /\ handle = NewHandle
  /\ permit = PermitOf(<<>>, FALSE)

NextProviders ==
  \/ ProvidersCall
  \/ \E i \in registry.inprog : ChainIdAnswer(i)
  \/ \E i \in registry.inprog : ChainIdErr(i)

SpecProviders == InitProviders /\ [][NextProviders]_vars

\* ------------------------------------------------------- SsssPermitter handle
\* What a call returned: Ok(val) or Err, and whether the call sent a request.
Returned(op, ok, val, rpc) == Some([op |-> op, ok |-> ok, val |-> val, rpc |-> rpc])

\* The contract's registry address changes.
RegistryChange ==
  /\ handle' = [handle EXCEPT !.reg_addr = IF @ = 1 THEN 2 ELSE 1]
  /\ UNCHANGED <<sync_vars, registry, permit>>

\* Instant::now() moves on.
ClockAdvance(d) ==
  /\ handle.ticks < MaxTicks
  /\ handle' = [handle EXCEPT !.now = @ + d, !.ticks = @ + 1]
  /\ UNCHANGED <<sync_vars, registry, permit>>

\* creation_block(), up to its await: the value of the cell if it is set,
\* else the contract call is sent.
CreationBlockCall(k) ==
  /\ handle.callers[k].pc = "idle"
  /\ handle' =
       IF handle.cell # None
       THEN [handle EXCEPT !.callers[k].ret =
               Returned("creation_block", TRUE, Unwrap(handle.cell), FALSE)]
       ELSE [handle EXCEPT !.callers[k] = [pc |-> "cb_fetch", ret |-> None]]
  /\ UNCHANGED <<sync_vars, registry, permit>>

\* The contract call answers: set(b).ok() keeps a value already in the cell.
CreationBlockOk(k) ==
  /\ handle.callers[k].pc = "cb_fetch"
  /\ handle' = [handle EXCEPT
       !.cell = IF @ = None THEN Some(CreationBlock) ELSE @,
       !.callers[k] = [pc |-> "idle",
                       ret |-> Returned("creation_block", TRUE, CreationBlock, TRUE)]]
  /\ UNCHANGED <<sync_vars, registry, permit>>

\* The contract call fails: `?` returns the error.
CreationBlockErr(k) ==
  /\ handle.callers[k].pc = "cb_fetch"
  /\ handle' = [handle EXCEPT
       !.callers[k] = [pc |-> "idle",
                       ret |-> Returned("creation_block", FALSE, 0, TRUE)]]
  /\ UNCHANGED <<sync_vars, registry, permit>>

\* upstream() is called and waits for the mutex.
UpstreamCall(k) ==
  /\ handle.callers[k].pc = "idle"
  /\ handle' = [handle EXCEPT !.callers[k] = [pc |-> "up_wait", ret |-> None]]
  /\ UNCHANGED <<sync_vars, registry, permit>>

\* Variant: the cache is read and refreshed without taking the mutex.
UpstreamLockedNoMutex(k) ==
  /\ handle.callers[k].pc = "up_wait"
  /\ handle' =
       IF handle.up_expiry > handle.now
       THEN [handle EXCEPT !.callers[k] =
               [pc |-> "idle", ret |-> Returned("upstream", TRUE, handle.up_addr, FALSE)]]
       ELSE [handle EXCEPT !.callers[k].pc = "up_fetch"]
  /\ UNCHANGED <<sync_vars, registry, permit>>

\* The mutex is acquired: an unexpired entry is returned and the guard
\* dropped, else registry() is called with the guard held.
UpstreamLocked(k) ==
  /\ handle.callers[k].pc = "up_wait"
  /\ handle.lock = None
  /\ handle' =
       IF handle.up_expiry > handle.now
       THEN [handle EXCEPT !.callers[k] =
               [pc |-> "idle", ret |-> Returned("upstream", TRUE, handle.up_addr, FALSE)]]
       ELSE [handle EXCEPT !.lock = Some(k), !.callers[k].pc = "up_fetch"]
  /\ UNCHANGED <<sync_vars, registry, permit>>

\* registry() answers: the entry is replaced, expiring an hour from now.
UpstreamOk(k) ==
  /\ handle.callers[k].pc = "up_fetch"
  /\ handle' = [handle EXCEPT
       !.up_addr = handle.reg_addr,
       !.up_expiry = handle.now + UpstreamTtl,
       !.lock = None,
       !.callers[k] = [pc |-> "idle",
                       ret |-> Returned("upstream", TRUE, handle.reg_addr, TRUE)]]
  /\ UNCHANGED <<sync_vars, registry, permit>>

\* registry() fails: `?` returns the error and drops the guard.
UpstreamErr(k) ==
  /\ handle.callers[k].pc = "up_fetch"
  /\ handle' = [handle EXCEPT
       !.lock = None,
       !.callers[k] = [pc |-> "idle", ret |-> Returned("upstream", FALSE, 0, TRUE)]]
  /\ UNCHANGED <<sync_vars, registry, permit>>

InitHandle ==
  /\ InitSync
  /\ head = [c \in Chains |-> CreationBlock]
  /\ persisted = [c \in Chains |-> None]
  /\ registry = RegistryOf(<<>>)
  /\ handle = NewHandle
  /\ permit = PermitOf(<<>>, FALSE)

NextHandle ==
  \/ RegistryChange
  \/ \E d \in {1, UpstreamTtl - 1} : ClockAdvance(d)
  \/ \E k \in Callers : CreationBlockCall(k)
  \/ \E k \in Callers : CreationBlockOk(k)
  \/ \E k \in Callers : CreationBlockErr(k)
  \/ \E k \in Callers : UpstreamCall(k)
  \/ \E k \in Callers : UpstreamLocked(k)
  \/ \E k \in Callers : UpstreamOk(k)
  \/ \E k \in Callers : UpstreamErr(k)

SpecHandle == InitHandle /\ [][NextHandle]_vars

\* ------------------------------------------------- the PermitRequest arm
\* A PermitRequest event: the identity and what req.selector() returns.
PermitRequests ==
  { [identity |-> id, selector |-> sel] :
      id \in Identities, sel \in {None, Some("nitro"), Some("other")} }

\* The result of one handled request.
Outcome(result, why) ==
  [req |-> Unwrap(permit.cur), result |-> result, why |-> why,
   fails |-> permit.fails, policy |-> permit.policy]

\* The closure returns without approving; for_each takes the next event.
Dropped(why, fails) ==
  [permit EXCEPT !.pc = "idle", !.cur = None, !.fails = fails,
                 !.outcomes = Append(@, [Outcome("dropped", why) EXCEPT !.fails = fails])]

\* for_each hands the next PermitRequest event to the closure.
PermitDeliver ==
  /\ permit.pc = "idle"
  /\ permit.queue # <<>>
  /\ permit' = [permit EXCEPT !.pc = "policy", !.cur = Some(Head(permit.queue)),
                              !.queue = Tail(@), !.fails = 0, !.policy = None]
  /\ UNCHANGED <<sync_vars, registry, handle>>

\* get_verifier fails: retry_times tries again, and gives the error back
\* after PermitAttempts attempts; the closure then logs it and returns.
GetVerifierErr ==
  /\ permit.pc = "policy"
  /\ permit' = IF permit.fails + 1 >= PermitAttempts
               THEN Dropped("policy", permit.fails + 1)
               ELSE [permit EXCEPT !.fails = @ + 1]
  /\ UNCHANGED <<sync_vars, registry, handle>>

\* Variant: every Some selector selects the verifier, in every build.
SelectsNitroAny(req, aws) == req.selector # None

\* The match on req.selector(): the "nitro" arm exists only with feature aws.
SelectsNitro(req, aws) == aws /\ req.selector = Some("nitro")

\* get_verifier answers Ok(p): the policy is p or the default policy, and the
\* selector is matched; without a verifier for it pass is None and the closure
\* returns.
GetVerifierOk(p) ==
  /\ permit.pc = "policy"
  /\ LET policy == IF p = None THEN Some("default") ELSE p IN
       permit' =
         IF SelectsNitro(Unwrap(permit.cur), permit.aws)
         THEN [permit EXCEPT !.pc = "verify", !.policy = policy]
         ELSE [Dropped("selector", permit.fails) EXCEPT
                 !.outcomes[Len(permit.outcomes) + 1].policy = policy]
  /\ UNCHANGED <<sync_vars, registry, handle>>

\* The verifier yields no decision: the closure returns.
VerifyNone ==
  /\ permit.pc = "verify"
  /\ permit' = Dropped("verdict", permit.fails)
  /\ UNCHANGED <<sync_vars, registry, handle>>

\* The verifier yields a decision: the closure goes on to the fulfilment,
\* which is todo!().
VerifySome ==
  /\ permit.pc = "verify"
  /\ permit' = [permit EXCEPT !.pc = "fulfil",
                              !.outcomes = Append(@, Outcome("fulfil", "verdict"))]
  /\ UNCHANGED <<sync_vars, registry, handle>>

InitPermit ==
  /\ InitSync
  /\ head = [c \in Chains |-> CreationBlock]
  /\ persisted = [c \in Chains |-> None]
  /\ registry = RegistryOf(<<>>)
  /\ handle = NewHandle
  /\ permit \in { PermitOf(q, aws) :
                    q \in UNION { [1..n -> PermitRequests] : n \in 0..MaxRequests },
                    aws \in BOOLEAN }

NextPermit ==
  \/ PermitDeliver
  \/ GetVerifierErr
  \/ \E p \in {None, Some("P")} : GetVerifierOk(p)
  \/ VerifyNone
  \/ VerifySome

SpecPermit == InitPermit /\ [][NextPermit]_vars

\* ===================================================================
\* Properties
\* ===================================================================
IsMarker(e) == e.kind.tag = "ProcessedBlock"
IsReal(e) == e.kind.tag # "ProcessedBlock"

\* A run of sync_chain of chain c has begun (and may have ended in a panic).
InRun(c) == pc[c] \in {"head", "running", "panicked"}

\* Lexicographic order of EventIndex.
IndexLeq(a, b) ==
  a.block < b.block \/ (a.block = b.block /\ a.log_index <= b.log_index)

\* The events of chain c that a future still holds.
Pending(c) ==
  UNION { {inflight[c][i].out[k] : k \in 1..Len(inflight[c][i].out)} :
          i \in 1..Len(inflight[c]) }

\* C1: in the stream the supervisor consumes, the marker of block N comes
\* strictly after every real event whose index block is N (no such event is
\* delivered later or still held by a future), and only after the markers of
\* all blocks M with start <= M < N, whatever the order in which the fetches
\* and decodes complete.
C1_MarkerAfterEvents ==
  \A c \in Chains :
    \A i \in 1..Len(delivered[c]) :
      IsMarker(delivered[c][i]) =>
        LET N == delivered[c][i].of_block IN
        /\ \A j \in 1..Len(delivered[c]) :
             (IsReal(delivered[c][j]) /\ delivered[c][j].index.block = N) => j < i
        /\ \A e \in Pending(c) : IsReal(e) => e.index.block # N
        /\ \A k \in 1..Len(inflight[c]) :
             inflight[c][k].kind = "block" => inflight[c][k].blk # N
        /\ \A M \in start_block[c]..(N - 1) :
             \E j \in 1..(i - 1) :
               IsMarker(delivered[c][j]) /\ delivered[c][j].of_block = M

\* Witness of C1: a real event of a block, then that block's marker, then the
\* marker of the next block have been delivered.
C1_Witness ==
  \E c \in Chains : \E i, j, k \in 1..Len(delivered[c]) :
    /\ i < j /\ j < k
    /\ IsReal(delivered[c][i])
    /\ IsMarker(delivered[c][j])
    /\ delivered[c][j].of_block = delivered[c][i].index.block
    /\ IsMarker(delivered[c][k])
    /\ delivered[c][k].of_block = delivered[c][j].of_block + 1

\* C2 (as claimed): the EventIndex values of the delivered events, markers
\* included, are non-decreasing in delivery order.
C2_IndexNonDecreasing ==
  \A c \in Chains :
    \A i, j \in 1..Len(delivered[c]) :
      i < j => IndexLeq(delivered[c][i].index, delivered[c][j].index)

\* C3: the cursor yields start, start+1, ... without gap or repeat, and each
\* block it yields is at most a height some get_block_number call reported
\* (hence at most the height of the chain).
C3_CursorExact ==
  \A c \in Chains :
    InRun(c) =>
      /\ \A k \in 1..Len(yielded[c]) :
           /\ yielded[c][k] = start_block[c] + k - 1
           /\ yielded[c][k] <= seen_head[c]
           /\ yielded[c][k] <= head[c]
      /\ pc[c] # "head" => current_block[c] = start_block[c] + Len(yielded[c])

\* Witness of C3: two blocks yielded, the second one above the head sampled
\* when the cursor was created (so it went through wait_for_block).
C3_Witness ==
  \E c \in Chains :
    /\ pc[c] = "running"
    /\ Len(yielded[c]) >= 2
    /\ yielded[c][Len(yielded[c])] > init_block[c]

\* C4 (as claimed): every write of ChainState by the checkpoint task stores a
\* block not below the block stored before and not below the start block of
\* the run.
C4_CheckpointNeverRegresses ==
  [][\A c \in Chains :
       persisted'[c] # persisted[c] =>
         /\ persisted[c] # None =>
              Unwrap(persisted'[c]) >= Unwrap(persisted[c])
         /\ Unwrap(persisted'[c]) >= start_block[c]]_vars

\* C5 (as claimed): the marker appended for block N has kind ProcessedBlock,
\* no transaction hash and index.block = N, and once the supervisor has
\* handled it the counter equals N.
C5_MarkerCarriesBlock ==
  \A c \in Chains :
    /\ \A e \in Pending(c) :
         IsMarker(e) => e.tx = None /\ e.index.block = e.of_block
    /\ (Len(delivered[c]) > 0 /\ IsMarker(delivered[c][Len(delivered[c])])) =>
         processed_block[c] = delivered[c][Len(delivered[c])].of_block

\* C6: a run starts at the persisted ChainState block when there is one, and
\* creation_block() is then not called; it starts at the creation block
\* otherwise; and no event of a block below the start block is delivered.
C6_StartAction ==
  \A c \in Chains :
    (pc[c] # "head" /\ pc'[c] = "head") =>
      IF persisted[c] # None
      THEN /\ start_block'[c] = Unwrap(persisted[c])
           /\ pc[c] = "init"
           /\ ~creation_called'[c]
      ELSE /\ start_block'[c] = CreationBlock
           /\ creation_called'[c]

C6_NothingBelowStart ==
  \A c \in Chains :
    InRun(c) =>
      /\ \A i \in 1..Len(delivered[c]) :
           /\ delivered[c][i].of_block >= start_block[c]
           /\ IsReal(delivered[c][i]) =>
                delivered[c][i].index.block >= start_block[c]

C6_ResumeFromCheckpoint ==
  [][C6_StartAction]_vars /\ []C6_NothingBelowStart

\* Witness of C6: a run resumed from a checkpoint above the creation block
\* has delivered a real event.
C6_Witness ==
  \E c \in Chains :
    /\ pc[c] = "running"
    /\ start_block[c] > CreationBlock
    /\ ~creation_called[c]
    /\ \E i \in 1..Len(delivered[c]) : IsReal(delivered[c][i])

\* C7 (as claimed): whenever the sync loop of a chain has stopped, by an error
\* or by a panic, the supervisor calls sync_chain again after the delay.
C7_AlwaysRestarts ==
  \A c \in Chains :
    pc[c] \in {"backoff", "panicked"} => ENABLED Restart(c)

\* The futures of chain c whose logs have been fetched.
Fetched(c) ==
  {i \in 1..Len(inflight[c]) :
     inflight[c][i].kind = "block" /\ inflight[c][i].st # "fetch"}

\* The events the log at position p of block n has produced so far, whether
\* still held by the block's future or already delivered.
EventsOf(c, n, p) ==
  {e \in Pending(c) \cup {delivered[c][k] : k \in 1..Len(delivered[c])} :
     IsReal(e) /\ e.of_block = n /\ e.of_pos = p}

\* A log without block number, transaction hash or log index, or flagged removed.
Unusable(log) ==
  \/ log.block_number = None
  \/ log.transaction_hash = None
  \/ log.log_index = None
  \/ log.removed = Some(TRUE)

\* C9: a log that lacks a block number, a transaction hash or a log index, or
\* that is flagged removed, produces no event and no transaction fetch, and
\* the other logs of its block are decoded as they are without it.
C9_UnusableLogDropped ==
  \A c \in Chains : \A i \in Fetched(c) :
    LET s == inflight[c][i] IN
    \A p \in 1..Len(s.logs) :
      Unusable(s.logs[p]) =>
        /\ p \notin s.active
        /\ <<s.blk, p>> \notin tx_fetched[c]
        /\ EventsOf(c, s.blk, p) = {}
        /\ \A q \in 1..Len(s.logs) :
             (q # p /\ s.logs[q] = MkLog(s.blk, q, TRUE, TRUE, TRUE, None,
                                         "Configuration", <<"X", 2, 1, 2>>)) =>
               \/ q \in s.active
               \/ Cardinality(EventsOf(c, s.blk, q)) = 1

\* Witness of C9: a block whose first log is unusable has been decoded, and its
\* second log has produced its event.
C9_Witness ==
  \E c \in Chains : \E i \in Fetched(c) :
    LET s == inflight[c][i] IN
    /\ s.st = "done"
    /\ Len(s.logs) = 2
    /\ Unusable(s.logs[1])
    /\ EventsOf(c, s.blk, 1) = {}
    /\ Cardinality(EventsOf(c, s.blk, 2)) = 1

\* C10 (as claimed): a Configuration log with block number b, transaction hash
\* t and log index i that is not flagged removed (flag absent or false), whose
\* calldata decodes to (X, C), yields exactly one event, with kind
\* Configuration{X, C}, index (b, i) and transaction hash t.
C10_ConfigurationDecoded ==
  \A c \in Chains : \A i \in Fetched(c) :
    LET s == inflight[c][i] IN
    \A p \in 1..Len(s.logs) :
      LET l == s.logs[p] IN
      ( /\ s.st = "done"
        /\ l.block_number # None /\ l.transaction_hash # None
        /\ l.log_index # None
        /\ l.removed \in {None, Some(FALSE)}
        /\ l.sig = "Configuration"
        /\ AbiDecodeOk(l.input) ) =>
        EventsOf(c, s.blk, p) =
          { [ kind |-> [tag |-> "Configuration", identity |-> l.input[1],
                        config |-> SubSeq(l.input, 3, Len(l.input))],
              tx |-> l.transaction_hash,
              index |-> [block |-> Unwrap(l.block_number),
                         log_index |-> Unwrap(l.log_index)],
              of_block |-> s.blk,
              of_pos |-> p ] }

\* The state of chain c: its rows of every variable.
ChainVars(c) ==
  <<head[c], persisted[c], pc[c], start_block[c], processed_block[c],
    updater[c], creation_cache[c], init_block[c], current_block[c],
    inflight[c], delivered[c], yielded[c], seen_head[c], creation_called[c],
    tx_fetched[c], handling[c], updates[c], stop_block[c], ended[c]>>

\* Every block up to the last one has been delivered with its marker, and the
\* checkpoint task has written the counter.
CaughtUp(c) ==
  /\ pc[c] = "running"
  /\ current_block[c] = MaxBlock + 1
  /\ inflight[c] = <<>>
  /\ \A n \in start_block[c]..MaxBlock :
       \E k \in 1..Len(delivered[c]) :
         IsMarker(delivered[c][k]) /\ delivered[c][k].of_block = n
  /\ persisted[c] = Some(processed_block[c])

\* C8: no step changes the state of two chains, and a chain whose endpoints
\* answer delivers all its events and writes its checkpoint however the
\* supervisor of a chain whose calls fail forever fails and restarts.
C8_ChainsIndependent ==
  /\ [][\A c, d \in Chains :
          (c # d /\ ChainVars(c)' # ChainVars(c)) => ChainVars(d)' = ChainVars(d)]_vars
  /\ \A c \in Chains : (c \notin down) ~> CaughtUp(c)

\* Witness of C8: the healthy chain has caught up while the supervisor of the
\* failing chain sleeps after one more failed run.
C8_Witness ==
  \E c, d \in Chains :
    /\ c \notin down /\ d \in down
    /\ CaughtUp(c)
    /\ Len(delivered[c]) > MaxBlock - start_block[c] + 1
    /\ pc[d] = "backoff"

\* A log that decode_permitter_event cannot decode: its signature is not one
\* of the contract's events, or it is a Configuration log whose source
\* transaction's calldata does not decode.
Undecodable(log) ==
  \/ log.sig \notin {"Configuration", "Unimplemented"}
  \/ log.sig = "Configuration" /\ ~AbiDecodeOk(log.input)

\* C11 (as claimed): a log that cannot be decoded is dropped alone: the sync
\* loop of the chain keeps running, the log produces no event, and a
\* well-formed Configuration log of the same block still yields its event.
C11_UndecodableLogDroppedAlone ==
  \A c \in Chains :
    /\ pc[c] # "panicked"
    /\ \A i \in Fetched(c) :
         LET s == inflight[c][i] IN
         \A p \in 1..Len(s.logs) :
           Undecodable(s.logs[p]) =>
             /\ EventsOf(c, s.blk, p) = {}
             /\ \A q \in 1..Len(s.logs) :
                  (q # p /\ s.logs[q] = MkLog(s.blk, q, TRUE, TRUE, TRUE, None,
                                              "Configuration", <<"X", 2, 1, 2>>)) =>
                    \/ q \in s.active
                    \/ Cardinality(EventsOf(c, s.blk, q)) = 1

\* C16 (as claimed): the checkpoint task of a chain does not outlive the event
\* loop of the run that spawned it: whenever no run of the chain is under way
\* (before the first run, in the backoff, after a panic) no checkpoint task
\* of the chain is alive to write ChainState.
C16_CheckpointTaskCancelled ==
  \A c \in Chains :
    pc[c] \notin {"head", "running"} => updater[c] # "alive"

\* --------------------------------------------------------------- C18
\* The real events the closure has been invoked on, in order.
RealDelivered(c) == SelectSeq(delivered[c], IsReal)

\* C18: in a run, the successful update_verifier calls are, in order and once
\* each, the delivered Configuration events with their identity, config bytes
\* and EventIndex, except the one still being retried; and while an update is
\* being retried the event it belongs to is the last one handled.
C18_UpdateBeforeNextEvent ==
  \A c \in Chains : InRun(c) =>
    LET reals == RealDelivered(c)
        busy  == IF handling[c] # None THEN 1 ELSE 0
    IN /\ Len(updates[c]) = Len(reals) - busy
       /\ \A k \in 1..Len(updates[c]) :
            /\ updates[c][k].identity = reals[k].kind.identity
            /\ updates[c][k].config = reals[k].kind.config
            /\ updates[c][k].index = reals[k].index
       /\ handling[c] # None =>
            /\ Len(delivered[c]) > 0
            /\ delivered[c][Len(delivered[c])] = Unwrap(handling[c]).ev

\* One store update is complete and the next one has failed and is being
\* retried, while the marker of the block waits in the buffer.
C18_Witness ==
  \E c \in Chains :
    /\ pc[c] = "running"
    /\ Len(updates[c]) >= 1
    /\ handling[c] # None
    /\ Unwrap(handling[c]).retried
    /\ \E i \in 1..Len(inflight[c]) : inflight[c][i].kind = "marker"

\* --------------------------------------------------------------- C20
\* Block n of the run is fully dispatched: its future has been created and
\* popped, with its marker, and no event of it is still being stored.
Dispatched(c, n) ==
  /\ \E k \in 1..Len(yielded[c]) : yielded[c][k] = n
  /\ \A i \in 1..Len(inflight[c]) : inflight[c][i].blk # n
  /\ handling[c] # None => Unwrap(handling[c]).ev.of_block # n

C19_StopBlockBoundsStream ==
  \A c \in Chains :
    /\ stop_block[c] # None =>
         /\ \A k \in 1..Len(yielded[c]) : yielded[c][k] <= Unwrap(stop_block[c])
         /\ ended[c] => yielded[c][Len(yielded[c])] = Unwrap(stop_block[c])
    /\ stop_block[c] = None => ~ended[c]

\* --------------------------------------------------------------- C12
\* C12 (as claimed): when providers() returns the error of a rejected URL, no
\* provider map is returned and no eth_chainId request has been sent to any
\* endpoint, wherever the rejected URL is in the list.
C12_RejectedUrlBeforeAnyRequest ==
  registry.result = "err_url" =>
    /\ registry.returned = None
    /\ registry.requested = {}

\* --------------------------------------------------------------- C13
\* The endpoints of the list whose node reports chain id.
Reporting(id) ==
  { i \in 1..Len(registry.rpcs) : registry.rpcs[i].chain = id }

\* C13: when providers() returns a map, its keys are the distinct chain ids
\* the endpoints reported and the provider of each id is a majority quorum
\* over exactly the endpoints that reported it, each once.
C13_GroupedByChainId ==
  registry.result = "ok" =>
    /\ registry.returned # None
    /\ LET m == Unwrap(registry.returned) IN
         /\ DOMAIN m = { registry.rpcs[i].chain : i \in 1..Len(registry.rpcs) }
         /\ \A id \in DOMAIN m :
              /\ m[id].quorum = "Majority"
              /\ Len(m[id].members) = Cardinality(Reporting(id))
              /\ { m[id].members[j] : j \in 1..Len(m[id].members) } = Reporting(id)

\* A -> 1, B -> 1, C -> 2, with C answering before A and B.
C13_Witness ==
  /\ registry.result = "ok"
  /\ registry.rpcs = <<Rpc(TRUE, "http", 1), Rpc(TRUE, "http", 1), Rpc(TRUE, "http", 2)>>
  /\ Unwrap(registry.returned)[1].members = <<2, 1>>
  /\ Unwrap(registry.returned)[2].members = <<3>>

\* --------------------------------------------------------------- C14
\* C14 (as claimed): at most one creation-block fetch is outstanding at a
\* time, no call of creation_block() returns an error, and no fetch is sent
\* once the cell holds a value.
C14_OneSharedCreationFetch ==
  /\ [](Cardinality({ k \in Callers : handle.callers[k].pc = "cb_fetch" }) <= 1)
  /\ [](\A k \in Callers :
          LET ret == handle.callers[k].ret IN
            (ret # None /\ Unwrap(ret).op = "creation_block") => Unwrap(ret).ok)
  /\ [][\A k \in Callers :
          (handle.callers[k].pc # "cb_fetch" /\ handle'.callers[k].pc = "cb_fetch")
            => handle.cell = None]_vars

\* --------------------------------------------------------------- C15
\* C15: at most one registry fetch is in flight; a caller that gets the mutex
\* returns the cached address without a request iff the expiry is later than
\* now, and else fetches (so the very first call fetches and the zero address
\* is never returned); a successful fetch replaces the entry by the address
\* fetched, expiring UpstreamTtl after that moment; a failed fetch and every
\* other step leave the entry unchanged.
C15_UpstreamCache ==
  /\ [](Cardinality({ k \in Callers : handle.callers[k].pc = "up_fetch" }) <= 1)
  /\ [](\A k \in Callers :
          LET ret == handle.callers[k].ret IN
            (ret # None /\ Unwrap(ret).op = "upstream" /\ Unwrap(ret).ok)
              => Unwrap(ret).val # AddressZero)
  /\ [][\A k \in Callers :
          LET a == handle.callers[k]
              b == handle'.callers[k]
              entry  == <<handle.up_addr, handle.up_expiry>>
              entry2 == <<handle'.up_addr, handle'.up_expiry>>
          IN /\ (a.pc = "up_wait" /\ b.pc # "up_wait") =>
                  /\ entry2 = entry
                  /\ IF handle.up_expiry > handle.now
                     THEN /\ b.pc = "idle"
                          /\ b.ret = Some([op |-> "upstream", ok |-> TRUE,
                                           val |-> handle.up_addr, rpc |-> FALSE])
                     ELSE b.pc = "up_fetch"
             /\ (a.pc = "up_fetch" /\ b.pc # "up_fetch") =>
                  /\ b.ret # None
                  /\ Unwrap(b.ret).rpc
                  /\ IF Unwrap(b.ret).ok
                     THEN entry2 = <<Unwrap(b.ret).val, handle.now + UpstreamTtl>>
                     ELSE entry2 = entry
             /\ (\A j \in Callers : handle.callers[j].pc # "up_fetch") => entry2 = entry]_vars

\* The entry has expired at exactly its expiry time, one caller is fetching
\* again with the mutex held and the other waits for the mutex.
C15_Witness ==
  \E k, j \in Callers :
    /\ handle.up_expiry = UpstreamTtl
    /\ handle.now = UpstreamTtl
    /\ handle.callers[k].pc = "up_fetch"
    /\ handle.callers[j].pc = "up_wait"

\* --------------------------------------------------------------- C17
\* C17: a request reaches the fulfilment step only after a policy fetch that
\* succeeded with fewer than PermitAttempts failures and a positive decision
\* of the verifier its selector names in this build; a request whose fetch
\* failed PermitAttempts times, whose selector names no verifier, or whose
\* verification gave no decision is dropped, and after a drop the closure has
\* returned, so that the next event is handled.
C17_PermitOnlyAfterPolicyAndVerdict ==
  /\ \A n \in 1..Len(permit.outcomes) :
       LET o == permit.outcomes[n]
           known == permit.aws /\ o.req.selector = Some("nitro")
       IN /\ o.result = "fulfil" =>
               /\ o.fails < PermitAttempts
               /\ o.policy # None
               /\ known
               /\ o.why = "verdict"
          /\ o.result = "dropped" =>
               \/ o.why = "policy" /\ o.fails = PermitAttempts /\ o.policy = None
               \/ o.why = "selector" /\ ~known /\ o.fails < PermitAttempts /\ o.policy # None
               \/ o.why = "verdict" /\ known /\ o.fails < PermitAttempts /\ o.policy # None
          /\ o.result \in {"fulfil", "dropped"}
          /\ (o.result = "fulfil") = (n = Len(permit.outcomes) /\ permit.pc = "fulfil")
  /\ permit.fails <= PermitAttempts
  /\ permit.pc = "policy" => permit.fails < PermitAttempts
  /\ (permit.pc = "idle" /\ permit.queue # <<>>) => ENABLED PermitDeliver

\* A request is dropped after PermitAttempts failed fetches and the next one,
\* whose fetch succeeded at the third attempt, was verified and reached the
\* fulfilment step.
C17_Witness ==
  /\ permit.pc = "fulfil"
  /\ Len(permit.outcomes) = 2
  /\ permit.outcomes[1].result = "dropped"
  /\ permit.outcomes[1].why = "policy"
  /\ permit.outcomes[2].fails = PermitAttempts - 1

====
